---- MODULE Spec2Model ----
(***************************************************************************)
(* Loyalty attribute and perk eligibility engine of gomgom-backend.        *)
(*                                                                         *)
(* The module holds four state machines over one set of variables:         *)
(*   SpecEval  the level evaluator applied to bounded attribute vectors    *)
(*   SpecPerk  the perk unlock evaluation applied to bounded perk rows     *)
(*   SpecMeta  the metadata route applied to bounded query results         *)
(*   Spec      users, NFT rows, the action log and the request handlers    *)
(*             that process actions, step by step, with transactions       *)
(***************************************************************************)
EXTENDS Integers, Sequences, FiniteSets, Bags, TLC

VARIABLES
    evalPc, attributes, level, prevLevel, \* level evaluator: input, result, result before lowering
    perkPc, perk, userInfo, is_unlocked,  \* perk evaluation: row, vector, result
    metaPc, metaTokenId, metaQuery, metadata, \* metadata route: input, query result, response
    users, loyalty_nfts, nft_attributes, user_actions, \* database tables
    chain,                                \* NFT contract: owner of every minted token
    reqs                                  \* request handlers in flight

evalVars == <<evalPc, attributes, level, prevLevel>>
perkVars == <<perkPc, perk, userInfo, is_unlocked>>
metaVars == <<metaPc, metaTokenId, metaQuery, metadata>>
dbVars   == <<users, loyalty_nfts, nft_attributes, user_actions, chain, reqs>>
vars     == <<evalVars, perkVars, metaVars, dbVars>>

(***************************************************************************)
(* Small helpers                                                           *)
(***************************************************************************)
Max(a, b) == IF a >= b THEN a ELSE b
Min(a, b) == IF a <= b THEN a ELSE b
Range(s) == {s[i] : i \in DOMAIN s}

\* Array.prototype.indexOf, 0-based, -1 when the element is absent.
IndexOf(arr, x) ==
    IF \E i \in DOMAIN arr : arr[i] = x
    THEN (CHOOSE i \in DOMAIN arr : arr[i] = x /\ \A j \in DOMAIN arr : arr[j] = x => i <= j) - 1
    ELSE -1

\* An optional value (a JSON field, a nullable result) is a sequence: empty
\* when the value is not present (undefined / null), <<v>> when it is v.
Absent == <<>>
Some(v) == <<v>>
Get(o) == o[1]

(***************************************************************************)
(* Level rule table (config/nft-levels)                                    *)
(***************************************************************************)
MAX_LEVEL == 7
MIN_LEVEL == 0

\* LEVEL_IMAGE_MAP, indexed by level.
LEVEL_IMAGE_MAP == [l \in 0..7 |->
    CASE l = 0 -> "bafkreihs44bfkpmh2wnuec3b567difnksanta37x7dtbnmlcylwn7h6gw4"
      [] l = 1 -> "bafybeibh56qt2q7dq7emhbrtp7vodkbkzerepxrdeaynhpubqizri4uute"
      [] l = 2 -> "bafkreidwdhm7e7pk4yfltkj3scur4mo7lobq5jetxod2zdstwcvxc46ptu"
      [] l = 3 -> "bafkreih6smgbqwhgj4cul57afpd5465o3yxnpkvwl6f2ao5x2k65tsn7uq"
      [] l = 4 -> "bafybeibywmwc7vfghnchifh6dwbfzxhvb7joutacmwjf3pd2s4g2dbw2aa"
      [] l = 5 -> "bafkreibjamecx6mrlua2bubdjek6el25gkgylkifnnkapu57jhn7dayqly"
      [] l = 6 -> "bafybeihajokglb5lfg2ujjidpgxdvsgy2cretjntrbdio7ffxo6vbqoaiy"
      [] l = 7 -> "bafybeie36og74jvgzjisjwzxs5c75rcm7e4g7qj6jmvyszxldp5nexyfly"
    ]

LEVEL_CONFIGS == <<
    [level |-> 0, name |-> "Explorer",
     description |-> "Welcome to GomGom! Start your loyalty journey.",
     imageCid |-> LEVEL_IMAGE_MAP[0],
     minRequirements |-> [loyaltyPoints |-> 0, flightsTaken |-> 0, totalSpending |-> 0, bankTier |-> Absent]],
    [level |-> 1, name |-> "Bronze Traveler",
     description |-> "You're getting started with your travels!",
     imageCid |-> LEVEL_IMAGE_MAP[1],
     minRequirements |-> [loyaltyPoints |-> 1000, flightsTaken |-> 2, totalSpending |-> 5000000, bankTier |-> Absent]],
    [level |-> 2, name |-> "Silver Navigator",
     description |-> "You're becoming a seasoned traveler!",
     imageCid |-> LEVEL_IMAGE_MAP[2],
     minRequirements |-> [loyaltyPoints |-> 2500, flightsTaken |-> 5, totalSpending |-> 15000000, bankTier |-> Some("Silver")]],
    [level |-> 3, name |-> "Gold Adventurer",
     description |-> "Your adventures are truly impressive!",
     imageCid |-> LEVEL_IMAGE_MAP[3],
     minRequirements |-> [loyaltyPoints |-> 5000, flightsTaken |-> 10, totalSpending |-> 35000000, bankTier |-> Some("Gold")]],
    [level |-> 4, name |-> "Diamond Explorer",
     description |-> "You're a true connoisseur of luxury travel!",
     imageCid |-> LEVEL_IMAGE_MAP[4],
     minRequirements |-> [loyaltyPoints |-> 10000, flightsTaken |-> 20, totalSpending |-> 75000000, bankTier |-> Some("Platinum")]],
    [level |-> 5, name |-> "Platinum Voyager",
     description |-> "Your loyalty and engagement are exceptional!",
     imageCid |-> LEVEL_IMAGE_MAP[5],
     minRequirements |-> [loyaltyPoints |-> 20000, flightsTaken |-> 35, totalSpending |-> 150000000, bankTier |-> Some("Platinum")]],
    [level |-> 6, name |-> "Elite Wings",
     description |-> "You've reached the pinnacle of travel excellence!",
     imageCid |-> LEVEL_IMAGE_MAP[6],
     minRequirements |-> [loyaltyPoints |-> 35000, flightsTaken |-> 50, totalSpending |-> 300000000, bankTier |-> Some("Diamond")]],
    [level |-> 7, name |-> "Royal Crown",
     description |-> "You are the ultimate GomGom loyalty member!",
     imageCid |-> LEVEL_IMAGE_MAP[7],
     minRequirements |-> [loyaltyPoints |-> 50000, flightsTaken |-> 75, totalSpending |-> 500000000, bankTier |-> Some("Diamond")]]
>>

bankTierHierarchy == <<"Standard", "Silver", "Gold", "Platinum", "Diamond">>

\* getLevelConfig: the configuration with that level, or Absent (null).
getLevelConfig(l) ==
    IF \E i \in DOMAIN LEVEL_CONFIGS : LEVEL_CONFIGS[i].level = l
    THEN Some(LEVEL_CONFIGS[CHOOSE i \in DOMAIN LEVEL_CONFIGS : LEVEL_CONFIGS[i].level = l])
    ELSE Absent

\* MeetsRequirements without the flights test.
MeetsRequirements_NoFlights(attrs, requirements) ==
    LET userTierIndex == IndexOf(bankTierHierarchy, attrs.bankTier)
        requiredTierIndex == IF requirements.bankTier # Absent
                             THEN IndexOf(bankTierHierarchy, Get(requirements.bankTier))
                             ELSE 0
    IN  /\ attrs.loyaltyPoints >= requirements.loyaltyPoints
        /\ attrs.totalSpending >= requirements.totalSpending
        /\ userTierIndex >= requiredTierIndex

\* MeetsRequirements with the bank tier compared for equality.
MeetsRequirements_ExactTier(attrs, requirements) ==
    LET userTierIndex == IndexOf(bankTierHierarchy, attrs.bankTier)
        requiredTierIndex == IF requirements.bankTier # Absent
                             THEN IndexOf(bankTierHierarchy, Get(requirements.bankTier))
                             ELSE 0
    IN  /\ attrs.loyaltyPoints >= requirements.loyaltyPoints
        /\ attrs.flightsTaken >= requirements.flightsTaken
        /\ attrs.totalSpending >= requirements.totalSpending
        /\ userTierIndex = requiredTierIndex

\* The body of the loop of calculateLoyaltyLevel: does the vector meet every
\* requirement of one configuration?
MeetsRequirements(attrs, requirements) ==
    LET meetsPoints   == attrs.loyaltyPoints >= requirements.loyaltyPoints
        meetsFlights  == attrs.flightsTaken >= requirements.flightsTaken
        meetsSpending == attrs.totalSpending >= requirements.totalSpending
        userTierIndex == IndexOf(bankTierHierarchy, attrs.bankTier)
        requiredTierIndex == IF requirements.bankTier # Absent
                             THEN IndexOf(bankTierHierarchy, Get(requirements.bankTier))
                             ELSE 0
        meetsBankTier == userTierIndex >= requiredTierIndex
    IN  meetsPoints /\ meetsFlights /\ meetsSpending /\ meetsBankTier

\* The loop of calculateLoyaltyLevel, from index i (1-based) downwards: the
\* level of the first configuration met, 0 when the loop runs out.
RECURSIVE ScanLevels(_, _)
ScanLevels(attrs, i) ==
    IF i < 1 THEN 0
    ELSE IF MeetsRequirements(attrs, LEVEL_CONFIGS[i].minRequirements)
         THEN LEVEL_CONFIGS[i].level
         ELSE ScanLevels(attrs, i - 1)

calculateLoyaltyLevel(attrs) ==
    Max(MIN_LEVEL, Min(ScanLevels(attrs, Len(LEVEL_CONFIGS)), MAX_LEVEL))

(***************************************************************************)
(* SpecEval: the level evaluator on bounded attribute vectors              *)
(***************************************************************************)
\* Every requirement of the rule table and the Slack values just below it.
Slack == 1

PointsInputs ==
    {LEVEL_CONFIGS[i].minRequirements.loyaltyPoints - d : i \in DOMAIN LEVEL_CONFIGS, d \in 0..Slack} \cap Nat
FlightsInputs ==
    {LEVEL_CONFIGS[i].minRequirements.flightsTaken - d : i \in DOMAIN LEVEL_CONFIGS, d \in 0..Slack} \cap Nat
SpendingInputs ==
    {LEVEL_CONFIGS[i].minRequirements.totalSpending - d : i \in DOMAIN LEVEL_CONFIGS, d \in 0..Slack} \cap Nat
BankTiers == Range(bankTierHierarchy)

AttributeVectors ==
    [loyaltyPoints : PointsInputs, flightsTaken : FlightsInputs,
     totalSpending : SpendingInputs, bankTier : BankTiers]

NotEvaluated == -1

\* A caller evaluates the vector it holds.
Evaluate ==
    /\ evalPc = "input"
    /\ level' = calculateLoyaltyLevel(attributes)
    /\ evalPc' = "evaluated"
    /\ UNCHANGED <<attributes, prevLevel, perkVars, metaVars, dbVars>>

\* A caller replaces one field of an evaluated vector by a smaller value (a
\* lower-ordinal tier for bankTier) and evaluates again.
EvaluateLowered(v) ==
    /\ evalPc \in {"evaluated", "lowered"}
    /\ attributes' = v
    /\ prevLevel' = level
    /\ level' = calculateLoyaltyLevel(v)
    /\ evalPc' = "lowered"
    /\ UNCHANGED <<perkVars, metaVars, dbVars>>

LowerPoints ==
    \E p \in PointsInputs :
        /\ p < attributes.loyaltyPoints
        /\ EvaluateLowered([attributes EXCEPT !.loyaltyPoints = p])

LowerFlights ==
    \E f \in FlightsInputs :
        /\ f < attributes.flightsTaken
        /\ EvaluateLowered([attributes EXCEPT !.flightsTaken = f])

LowerSpending ==
    \E a \in SpendingInputs :
        /\ a < attributes.totalSpending
        /\ EvaluateLowered([attributes EXCEPT !.totalSpending = a])

LowerBankTier ==
    \E t \in BankTiers :
        /\ IndexOf(bankTierHierarchy, t) < IndexOf(bankTierHierarchy, attributes.bankTier)
        /\ EvaluateLowered([attributes EXCEPT !.bankTier = t])

EvalInput ==
    /\ evalPc = "input"
    /\ attributes \in AttributeVectors
    /\ level = NotEvaluated
    /\ prevLevel = NotEvaluated

EvalIdle ==
    /\ evalPc = "idle"
    /\ attributes = [loyaltyPoints |-> 0, flightsTaken |-> 0, totalSpending |-> 0, bankTier |-> "Standard"]
    /\ level = NotEvaluated
    /\ prevLevel = NotEvaluated

EvalNext == Evaluate \/ LowerPoints \/ LowerFlights \/ LowerSpending \/ LowerBankTier

(***************************************************************************)
(* Perk unlock evaluation (DatabaseService.evaluatePerkUnlockCondition)    *)
(***************************************************************************)
\* JavaScript truthiness of an optional number, string and object: absent
\* (undefined, null), 0 and "" are falsy.
TruthyNumber(o) == o # Absent /\ Get(o) # 0
TruthyString(o) == o # Absent /\ Get(o) # ""
TruthyObject(o) == o # Absent

tierLevels == <<"Bronze", "Silver", "Gold", "Platinum", "Diamond">>

\* The keys of brandChecks.
BrandCheckKeys == {"vietjet_flights", "hdbank_transactions", "dragon_city_visits"}

\* brandChecks[key] < required; a key outside brandChecks reads undefined and
\* undefined < required is false.
BrandCheckBelow(info, key, required) ==
    /\ key \in BrandCheckKeys
    /\ info[key] < required

\* The tier test of evaluatePerkUnlockCondition: true when the perk stays
\* open as far as min_tier_level is concerned.
TierCheckBelow(info, min_tier_level) ==
    LET userTierIndex == IndexOf(tierLevels, info.tier_level)
        requiredTierIndex == IndexOf(tierLevels, min_tier_level)
    IN  userTierIndex < requiredTierIndex

\* The numeric tests of evaluatePerkUnlockCondition.
\* PointsBelow with the threshold itself counted as below.
PointsBelow_Inclusive(info, min_loyalty_points) == info.loyalty_points <= min_loyalty_points
PointsBelow(info, min_loyalty_points) == info.loyalty_points < min_loyalty_points
StakedBelow(info, min_staked_eth) == info.staked_eth < min_staked_eth
\* TransactionsBelow that never locks.
TransactionsBelow_Never(info, min_transactions) == FALSE
TransactionsBelow(info, min_transactions) == info.total_transactions < min_transactions

evaluatePerkUnlockCondition(p, userInfoOpt) ==
    IF userInfoOpt = Absent \/ p.unlock_condition = Absent THEN FALSE
    ELSE LET condition == Get(p.unlock_condition)
             info == Get(userInfoOpt) IN
         IF TruthyNumber(condition.min_loyalty_points)
              /\ PointsBelow(info, Get(condition.min_loyalty_points)) THEN FALSE
         ELSE IF TruthyString(condition.min_tier_level)
              /\ TierCheckBelow(info, Get(condition.min_tier_level)) THEN FALSE
         ELSE IF TruthyNumber(condition.min_staked_eth)
              /\ StakedBelow(info, Get(condition.min_staked_eth)) THEN FALSE
         ELSE IF TruthyNumber(condition.min_transactions)
              /\ TransactionsBelow(info, Get(condition.min_transactions)) THEN FALSE
         ELSE IF TruthyObject(condition.min_brand_specific)
              /\ \E e \in Get(condition.min_brand_specific) :
                     BrandCheckBelow(info, e.key, e.required) THEN FALSE
         ELSE TRUE

(***************************************************************************)
(* SpecPerk: perk evaluation on bounded perk rows and user vectors         *)
(***************************************************************************)
MaxThreshold == 2

\* A tier name that is in no tier list.
UnknownTier == "Titanium"
\* A brand key that brandChecks does not have.
UnknownBrandKey == "ha_long_star_bookings"

BrandEntry(k) == [key |-> k, required |-> 1]

\* Stored min_brand_specific objects: entries of one or two keys.
BrandConditions ==
    {Absent, Some({BrandEntry("vietjet_flights")}), Some({BrandEntry("hdbank_transactions")}),
     Some({BrandEntry("dragon_city_visits")}), Some({BrandEntry(UnknownBrandKey)}),
     Some({BrandEntry("vietjet_flights"), BrandEntry("hdbank_transactions")})}

Optional(S) == {Absent} \cup {Some(x) : x \in S}

UnlockConditions ==
    [min_loyalty_points : Optional(0..MaxThreshold),
     min_tier_level : Optional({UnknownTier, "Standard"} \cup Range(tierLevels)),
     min_staked_eth : Optional({1}),
     min_transactions : Optional({1}),
     min_brand_specific : BrandConditions]

PerkRows == [unlock_condition : Optional(UnlockConditions)]

UserInfos ==
    [loyalty_points : 0..MaxThreshold, tier_level : Range(tierLevels),
     staked_eth : 0..1, total_transactions : 0..1,
     vietjet_flights : 0..1, hdbank_transactions : 0..1, dragon_city_visits : 0..1]

\* getUserPerks evaluates one perk row against the user's row, which is null
\* when the wallet has no NFT.
EvaluatePerk ==
    /\ perkPc = "input"
    /\ is_unlocked' = evaluatePerkUnlockCondition(perk, userInfo)
    /\ perkPc' = "evaluated"
    /\ UNCHANGED <<perk, userInfo, evalVars, metaVars, dbVars>>

PerkInput ==
    /\ perkPc = "input"
    /\ perk \in PerkRows
    /\ userInfo \in Optional(UserInfos)
    /\ is_unlocked = FALSE

PerkIdle ==
    /\ perkPc = "idle"
    /\ perk = [unlock_condition |-> Absent]
    /\ userInfo = Absent
    /\ is_unlocked = FALSE

PerkNext == EvaluatePerk

(***************************************************************************)
(* Metadata route (GET /api/metadata/:tokenId)                             *)
(***************************************************************************)
METADATA_BASE_URL == "https://gomgom-backend.onrender.com/api/metadata"
PINATA_GATEWAY == "https://harlequin-impressed-guan-658.mypinata.cloud"
DEFAULT_NAME_PREFIX == "GomGom Loyalty NFT"
DEFAULT_DESCRIPTION == "Dynamic loyalty NFT that evolves with your engagement across our partner ecosystem."

\* Template strings are kept as the tuple of their parts.
generateMetadataUrl(tokenId) == <<METADATA_BASE_URL, "/", tokenId>>
generateImageUrl(imageCid) == <<PINATA_GATEWAY, "/ipfs/", imageCid>>

\* x || d for an optional number and an optional string.
NumberOr(o, d) == IF TruthyNumber(o) THEN Get(o) ELSE d
StringOr(o, d) == IF TruthyString(o) THEN Get(o) ELSE d

generateMockAttributes(tokenId) ==
    LET baseMultiplier == (tokenId % 5) + 1 IN
    [loyaltyPoints |-> baseMultiplier * 1000,
     flightsTaken |-> baseMultiplier * 2,
     totalSpending |-> baseMultiplier * 10000000,
     bankTier |-> bankTierHierarchy[Min(baseMultiplier - 1, 4) + 1],
     resortsVisited |-> baseMultiplier,
     milesEarned |-> baseMultiplier * 5000,
     statusTier |-> tierLevels[Min(baseMultiplier - 1, 4) + 1]]

\* The percentages k for which the double (2k + 1) / 200 * 100 falls below
\* k + 0.5: the quotient is rounded to a double before it is multiplied, as
\* in 575 / 1000 * 100 = 57.49999999999999.
DoubleBelowHalf == {14, 28, 56, 57}

\* Math.round((a / b) * 100) for non-negative integers a and b > 0, in
\* double arithmetic: the nearest integer, a half going up unless the
\* product falls below it.
RoundPercent(a, b) ==
    LET halfUp == (200 * a + b) \div (2 * b)
        doubled == (200 * a) \div b
    IN  IF (200 * a) % b = 0 /\ doubled % 2 = 1 /\ (doubled - 1) \div 2 \in DoubleBelowHalf
        THEN halfUp - 1
        ELSE halfUp

calculateProgressToNextLevel(attrs, currentLevel) ==
    IF currentLevel >= MAX_LEVEL THEN 100
    ELSE LET nextLevelConfig == getLevelConfig(currentLevel + 1) IN
         IF nextLevelConfig = Absent THEN 100
         ELSE LET requiredPoints == Get(nextLevelConfig).minRequirements.loyaltyPoints IN
              IF requiredPoints = 0 THEN 100
              ELSE Min(100, RoundPercent(attrs.loyaltyPoints, requiredPoints))

\* RarityTrait with level 5 left out of Elite.
RarityTrait_EliteAboveFive(loyaltyLevel) ==
    IF loyaltyLevel > 5 THEN [trait_type |-> "Rarity", value |-> "Elite"]
    ELSE IF loyaltyLevel >= 3 THEN [trait_type |-> "Rarity", value |-> "Rare"]
    ELSE [trait_type |-> "Rarity", value |-> "Common"]

\* The trait pushed by the rarity branch of the route.
RarityTrait(loyaltyLevel) ==
    IF loyaltyLevel >= 5 THEN [trait_type |-> "Rarity", value |-> "Elite"]
    ELSE IF loyaltyLevel >= 3 THEN [trait_type |-> "Rarity", value |-> "Rare"]
    ELSE [trait_type |-> "Rarity", value |-> "Common"]

\* userAttributes built from the row of the metadata query.
UserAttributesOf(nftData) ==
    [loyaltyPoints |-> NumberOr(nftData.loyalty_points, 0),
     flightsTaken |-> NumberOr(nftData.flights_taken, 0),
     totalSpending |-> NumberOr(nftData.total_spending, 0),
     bankTier |-> StringOr(nftData.bank_tier, "Standard"),
     resortsVisited |-> NumberOr(nftData.resorts_visited, 0),
     milesEarned |-> NumberOr(nftData.miles_earned, 0),
     statusTier |-> StringOr(nftData.status_tier, "Bronze")]

\* The response of the route for a valid token id, given the outcome of its
\* query: a thrown error, no row, or one row.
MetadataResponse(tokenId, query) ==
    LET found == query.kind = "rows" /\ query.rows # <<>>
        userAttributes == IF found THEN UserAttributesOf(query.rows[1])
                          ELSE generateMockAttributes(tokenId)
        loyaltyLevel == IF found THEN calculateLoyaltyLevel(userAttributes)
                        ELSE tokenId % 8
        levelConfig == getLevelConfig(loyaltyLevel)
        levelName == IF levelConfig # Absent THEN Get(levelConfig).name
                     ELSE <<"Level ", loyaltyLevel>>
        baseTraits == <<
            [trait_type |-> "Loyalty Level", value |-> loyaltyLevel],
            [trait_type |-> "Level Name", value |-> levelName],
            [trait_type |-> "Loyalty Points", value |-> userAttributes.loyaltyPoints],
            [trait_type |-> "Flights Taken", value |-> userAttributes.flightsTaken],
            [trait_type |-> "Bank Tier", value |-> userAttributes.bankTier],
            [trait_type |-> "Status Tier", value |-> userAttributes.statusTier],
            [trait_type |-> "Total Spending (VND)", value |-> userAttributes.totalSpending],
            [trait_type |-> "Resorts Visited", value |-> userAttributes.resortsVisited],
            [trait_type |-> "Miles Earned", value |-> userAttributes.milesEarned] >>
        withRarity == Append(baseTraits, RarityTrait(loyaltyLevel))
        traits == IF found /\ query.rows[1].last_updated # Absent
                  THEN Append(withRarity, [trait_type |-> "Last Updated",
                                           value |-> Get(query.rows[1].last_updated)])
                  ELSE withRarity
    IN  [status |-> 200,
         name |-> <<DEFAULT_NAME_PREFIX, " #", tokenId>>,
         description |-> IF levelConfig # Absent THEN Get(levelConfig).description
                         ELSE DEFAULT_DESCRIPTION,
         image |-> generateImageUrl(LEVEL_IMAGE_MAP[loyaltyLevel]),
         attributes |-> traits,
         loyalty_ecosystem |->
            [level |-> loyaltyLevel,
             level_name |-> levelName,
             max_level |-> MAX_LEVEL,
             progress_to_next_level |-> calculateProgressToNextLevel(userAttributes, loyaltyLevel)]]

(***************************************************************************)
(* SpecMeta: the metadata route on bounded token ids and query results     *)
(***************************************************************************)
MaxTokenId == 8

MetaTokenIds == -1..MaxTokenId

RequiredPoints == {LEVEL_CONFIGS[i].minRequirements.loyaltyPoints : i \in DOMAIN LEVEL_CONFIGS}
RequiredFlights == {LEVEL_CONFIGS[i].minRequirements.flightsTaken : i \in DOMAIN LEVEL_CONFIGS}
RequiredSpending == {LEVEL_CONFIGS[i].minRequirements.totalSpending : i \in DOMAIN LEVEL_CONFIGS}

\* Points between two requirements, at a half and just under a full percent
\* of the level-1 requirement.
BetweenPoints == {575, 990}

Timestamp == "2025-01-01T00:00:00.000Z"

\* Rows of loyalty_nfts LEFT JOIN nft_attributes: with an attribute row ...
JoinedRows ==
    [loyalty_level : {Some(l) : l \in MIN_LEVEL..MAX_LEVEL},
     loyalty_points : {Some(x) : x \in RequiredPoints \cup BetweenPoints},
     flights_taken : {Some(x) : x \in RequiredFlights},
     total_spending : {Some(x) : x \in RequiredSpending},
     bank_tier : {Some(t) : t \in BankTiers},
     resorts_visited : {Some(0)},
     miles_earned : {Some(0)},
     status_tier : {Some("Bronze")},
     last_updated : {Some(Timestamp)}]

\* ... and without one, every attribute column NULL.
UnjoinedRow ==
    [loyalty_level |-> Absent, loyalty_points |-> Absent, flights_taken |-> Absent,
     total_spending |-> Absent, bank_tier |-> Absent, resorts_visited |-> Absent,
     miles_earned |-> Absent, status_tier |-> Absent, last_updated |-> Absent]

MetaQueries ==
    {[kind |-> "error", rows |-> <<>>], [kind |-> "rows", rows |-> <<>>]}
    \cup {[kind |-> "rows", rows |-> <<r>>] : r \in JoinedRows \cup {UnjoinedRow}}

NoResponse == [status |-> 0]

\* The route: an invalid token id is answered 400, anything else 200.
GetMetadata ==
    /\ metaPc = "input"
    /\ metadata' = IF metaTokenId < 0
                   THEN [status |-> 400, error |-> "Invalid token ID"]
                   ELSE MetadataResponse(metaTokenId, metaQuery)
    /\ metaPc' = "responded"
    /\ UNCHANGED <<metaTokenId, metaQuery, evalVars, perkVars, dbVars>>

MetaInput ==
    /\ metaPc = "input"
    /\ metaTokenId \in MetaTokenIds
    /\ metaQuery \in MetaQueries
    /\ metadata = NoResponse

MetaIdle ==
    /\ metaPc = "idle"
    /\ metaTokenId = 0
    /\ metaQuery = [kind |-> "rows", rows |-> <<>>]
    /\ metadata = NoResponse

MetaNext == GetMetadata

(***************************************************************************)
(* Database rows and the SQL that the services run on them                 *)
(***************************************************************************)
\* Wallet addresses as callers send them, and String.toLowerCase on them.
MixedCaseAddress == "0xAA"
Addresses == {MixedCaseAddress}
toLowerCase(a) == IF a = MixedCaseAddress THEN "0xaa" ELSE a

\* The row createNFTRecord inserts into nft_attributes (and resets an
\* existing row to, ON CONFLICT): level 1, points 0, Standard, Bronze; every
\* other column takes its default.
NewAttributesRow(tokenId) ==
    [nft_token_id |-> tokenId,
     loyalty_level |-> 1,
     loyalty_points |-> 0,
     bank_tier |-> "Standard",
     status_tier |-> "Bronze",
     flights_taken |-> 0,
     total_spending |-> 0,
     resorts_visited |-> 0,
     miles_earned |-> 0,
     total_transactions |-> 0,
     total_spent |-> 0,
     vietjet_flights |-> 0,
     hdbank_transactions |-> 0,
     dragon_city_visits |-> 0,
     tier_level |-> "Bronze"]

\* SqlLoyaltyLevel with Gold accepted where Platinum is required.
SqlLoyaltyLevel_GoldForPlatinum(row) ==
    LET p == row.loyalty_points
        f == row.flights_taken
        s == row.total_spending
        t == row.bank_tier IN
    IF p >= 50000 /\ f >= 75 /\ s >= 500000000 /\ t = "Diamond" THEN 7
    ELSE IF p >= 35000 /\ f >= 50 /\ s >= 300000000 /\ t = "Diamond" THEN 6
    ELSE IF p >= 20000 /\ f >= 35 /\ s >= 150000000 /\ t \in {"Gold", "Platinum", "Diamond"} THEN 5
    ELSE IF p >= 10000 /\ f >= 20 /\ s >= 75000000 /\ t \in {"Gold", "Platinum", "Diamond"} THEN 4
    ELSE IF p >= 5000 /\ f >= 10 /\ s >= 35000000 /\ t \in {"Gold", "Platinum", "Diamond"} THEN 3
    ELSE IF p >= 2500 /\ f >= 5 /\ s >= 15000000 /\ t \in {"Silver", "Gold", "Platinum", "Diamond"} THEN 2
    ELSE IF p >= 1000 /\ f >= 2 /\ s >= 5000000 THEN 1
    ELSE 0

\* The IF chain of calculate_and_update_loyalty_level over a stored row.
SqlLoyaltyLevel(row) ==
    LET p == row.loyalty_points
        f == row.flights_taken
        s == row.total_spending
        t == row.bank_tier IN
    IF p >= 50000 /\ f >= 75 /\ s >= 500000000 /\ t = "Diamond" THEN 7
    ELSE IF p >= 35000 /\ f >= 50 /\ s >= 300000000 /\ t = "Diamond" THEN 6
    ELSE IF p >= 20000 /\ f >= 35 /\ s >= 150000000 /\ t \in {"Platinum", "Diamond"} THEN 5
    ELSE IF p >= 10000 /\ f >= 20 /\ s >= 75000000 /\ t \in {"Platinum", "Diamond"} THEN 4
    ELSE IF p >= 5000 /\ f >= 10 /\ s >= 35000000 /\ t \in {"Gold", "Platinum", "Diamond"} THEN 3
    ELSE IF p >= 2500 /\ f >= 5 /\ s >= 15000000 /\ t \in {"Silver", "Gold", "Platinum", "Diamond"} THEN 2
    ELSE IF p >= 1000 /\ f >= 2 /\ s >= 5000000 THEN 1
    ELSE 0

\* trigger_update_loyalty_level, BEFORE UPDATE: when a gating column changes,
\* NEW.loyalty_level is what calculate_and_update_loyalty_level computes. The
\* function SELECTs the row from the table, where the row still has its OLD
\* values, since the new version is not written before the trigger returns.
TriggerUpdateLoyaltyLevel(old, new) ==
    IF \/ old.loyalty_points # new.loyalty_points
       \/ old.flights_taken # new.flights_taken
       \/ old.total_spending # new.total_spending
       \/ old.bank_tier # new.bank_tier
    THEN [new EXCEPT !.loyalty_level = SqlLoyaltyLevel(old)]
    ELSE new

\* The CASE of updateUserTier.
UserTier(loyalty_points) ==
    IF loyalty_points >= 10000 THEN "Diamond"
    ELSE IF loyalty_points >= 5000 THEN "Platinum"
    ELSE IF loyalty_points >= 2000 THEN "Gold"
    ELSE IF loyalty_points >= 500 THEN "Silver"
    ELSE "Bronze"

(***************************************************************************)
(* Action processing (DatabaseService.processUserAction)                   *)
(***************************************************************************)
validActionTypes ==
    {"vietjet_flight_booking", "hdbank_transaction", "dragon_city_visit",
     "hd_saison_purchase", "ha_long_star_booking"}

\* calculatePoints: pointsMap[actionType] || 0, not below 0.
calculatePoints(actionType, details) ==
    LET mapped ==
          CASE actionType = "vietjet_flight_booking" -> NumberOr(details.pointsEarned, 100)
            [] actionType = "hdbank_transaction" -> NumberOr(details.amount, 0) \div 1000
            [] actionType = "dragon_city_visit" -> NumberOr(details.pointsEarned, 50)
            [] actionType = "hd_saison_purchase" -> NumberOr(details.amount, 0) \div 10000
            [] actionType = "ha_long_star_booking" -> NumberOr(details.pointsEarned, 150)
            [] OTHER -> 0
    IN  Max(mapped, 0)

\* The SET clause updateNFTAttributes builds for one row.
SetAttributes(row, actionType, pointsEarned, details) ==
    LET base == [row EXCEPT !.loyalty_points = @ + pointsEarned,
                            !.total_transactions = @ + 1] IN
    CASE actionType = "vietjet_flight_booking" ->
            [base EXCEPT !.vietjet_flights = @ + 1]
      [] actionType = "hdbank_transaction" ->
            [base EXCEPT !.hdbank_transactions = @ + 1,
                         !.total_spent = @ + NumberOr(details.amount, 0)]
      [] actionType = "dragon_city_visit" ->
            [base EXCEPT !.dragon_city_visits = @ + 1]
      [] OTHER -> base

\* What the two UPDATE statements of updateNFTAttributes (the attribute
\* update, under the level trigger, then updateUserTier) make of one row.
updateNFTAttributes(row, actionType, pointsEarned, details) ==
    LET updated == TriggerUpdateLoyaltyLevel(row, SetAttributes(row, actionType, pointsEarned, details))
        tiered == [updated EXCEPT !.tier_level = UserTier(updated.loyalty_points)]
    IN  TriggerUpdateLoyaltyLevel(updated, tiered)

(***************************************************************************)
(* Spec: users, NFTs, attribute rows, the action log and request handlers  *)
(***************************************************************************)
\* Request handlers that can be in flight at once.
Handlers == {"h1", "h2"}
\* Rows the action log may hold.
MaxActions == 3
\* Tokens the contract may issue.
MaxSupply == 2

\* Action types callers send: the five of the table and one outside it.
UnknownActionType == "teleportation"

\* Payloads callers send.
NoDetails == [pointsEarned |-> Absent, amount |-> Absent]
PointsEarned(x) == [NoDetails EXCEPT !.pointsEarned = Some(x)]
Amount(x) == [NoDetails EXCEPT !.amount = Some(x)]

\* Request bodies callers send: an action type with a payload for it, or
\* with none.
Body(t, d) == [actionType |-> t, details |-> d]

\* Bodies sent to POST /api/actions/simulate.
SimulateBodies ==
    {Body(UnknownActionType, Absent),
     Body(UnknownActionType, Some(NoDetails)),
     Body("vietjet_flight_booking", Some(PointsEarned(100))),
     Body("vietjet_flight_booking", Some(PointsEarned(0))),
     Body("vietjet_flight_booking", Some(PointsEarned(-5))),
     Body("dragon_city_visit", Some(PointsEarned(0))),
     Body("ha_long_star_booking", Some(PointsEarned(100))),
     Body("hdbank_transaction", Some(Amount(25000))),
     Body("hdbank_transaction", Some(Amount(-2000))),
     Body("hd_saison_purchase", Some(Amount(5000)))}

\* Bodies sent to POST /api/nfts/update-loyalty/:tokenId.
LoyaltyBodies ==
    {Body(UnknownActionType, Absent),
     Body("vietjet_flight_booking", Some(PointsEarned(100))),
     Body("hdbank_transaction", Some(Amount(25000)))}

\* The lowest idle handler takes the next request.
TakesNext(h) ==
    /\ reqs[h].pc = "idle"
    /\ h = "h2" => reqs["h1"].pc # "idle"

\* Token ids callers send: one more than can be minted.
TokenIds == 1..Cardinality(Addresses) + 1

IdleHandler ==
    [pc |-> "idle", kind |-> "none", walletAddress |-> "", tokenId |-> 0,
     actionType |-> "", details |-> NoDetails, previousLevel |-> 0,
     pointsEarned |-> 0, txAction |-> Absent, txRows |-> {}, rowCount |-> 0,
     newLevel |-> 0, uriTokenId |-> 0, expectedTokenId |-> 0,
     storedLevel |-> 0, response |-> [status |-> 0]]

\* user_id of an attribute row: the wallet that owns the row's token.
UserIdOf(row) ==
    LET owners == {n.owner_wallet_address : n \in {m \in loyalty_nfts : m.token_id = row.nft_token_id}}
    IN  IF owners = {} THEN Absent ELSE Some(CHOOSE o \in owners : TRUE)

\* LockedByOther without row locks: an UPDATE never waits.
LockedByOther_NoLock(h, tokenId) == FALSE

\* A row is locked while a transaction in flight holds a new version of it.
LockedByOther(h, tokenId) ==
    \E g \in Handlers \ {h} : \E row \in reqs[g].txRows : row.nft_token_id = tokenId

\* getUserByAddress
getUserByAddress(walletAddress) ==
    IF toLowerCase(walletAddress) \in users THEN Some(toLowerCase(walletAddress)) ELSE Absent

\* getNFTMetadata: the loyalty_nfts row joined with its attribute row, the
\* attribute columns COALESCEd to their defaults; null when the token has no
\* loyalty_nfts row.
getNFTMetadata(tokenId) ==
    LET nfts == {n \in loyalty_nfts : n.token_id = tokenId}
        rows == {a \in nft_attributes : a.nft_token_id = tokenId} IN
    IF nfts = {} THEN Absent
    ELSE LET n == CHOOSE m \in nfts : TRUE IN
         IF rows = {}
         THEN Some([token_id |-> tokenId, owner_wallet_address |-> n.owner_wallet_address,
                    loyalty_level |-> 0, loyalty_points |-> 0, flights_taken |-> 0,
                    bank_tier |-> "Standard", total_spending |-> 0])
         ELSE LET a == CHOOSE b \in rows : TRUE IN
              Some([token_id |-> tokenId, owner_wallet_address |-> n.owner_wallet_address,
                    loyalty_level |-> a.loyalty_level, loyalty_points |-> a.loyalty_points,
                    flights_taken |-> a.flights_taken, bank_tier |-> a.bank_tier,
                    total_spending |-> a.total_spending])

\* Transactions that hold an action row not yet committed.
InFlight == {h \in Handlers : reqs[h].txAction # Absent}

Respond(h, resp) ==
    reqs' = [reqs EXCEPT ![h] = [@ EXCEPT !.pc = "done", !.response = resp,
                                          !.txAction = Absent, !.txRows = {}]]

\* The wallet address of a second user.
OtherAddress == "0xbb"

\* isValidWalletAddress: 0x and forty hexadecimal digits of either case.
isValidWalletAddress(address) ==
    address \in Addresses \cup {toLowerCase(a) : a \in Addresses} \cup {OtherAddress}

\* initUser up to the INSERT: an invalid address throws; a user found by
\* getUserByAddress is returned as it is.
InitUser(h, walletAddress) ==
    LET q == [IdleHandler EXCEPT !.kind = "init", !.walletAddress = walletAddress] IN
    /\ TakesNext(h)
    /\ reqs' = [reqs EXCEPT ![h] =
          IF ~isValidWalletAddress(walletAddress)
          THEN [q EXCEPT !.pc = "done",
                         !.response = [status |-> 500, message |-> "Invalid wallet address format"]]
          ELSE IF getUserByAddress(walletAddress) # Absent
          THEN [q EXCEPT !.pc = "done",
                         !.response = [status |-> 200, message |-> "User already exists",
                                       user |-> getUserByAddress(walletAddress)]]
          ELSE [q EXCEPT !.pc = "initInsert"]]
    /\ UNCHANGED <<users, loyalty_nfts, nft_attributes, user_actions, chain, evalVars, perkVars, metaVars>>

\* The INSERT of initUser without toLowerCase(): the address is stored as
\* the request spelled it.
InsertUser_AsGiven(h) ==
    LET user == reqs[h].walletAddress IN
    /\ reqs[h].pc = "initInsert"
    /\ IF user \in users
       THEN /\ reqs' = [reqs EXCEPT ![h] = [@ EXCEPT !.pc = "initSelect"]]
            /\ UNCHANGED users
       ELSE /\ users' = users \cup {user}
            /\ Respond(h, [status |-> 200, message |-> "User initialized successfully",
                           user |-> Some(user)])
    /\ UNCHANGED <<loyalty_nfts, nft_attributes, user_actions, chain, evalVars, perkVars, metaVars>>

\* initUser, INSERT ... ON CONFLICT (wallet_address) DO NOTHING RETURNING:
\* the inserted row is returned, and no row when the address is there.
InsertUser(h) ==
    LET user == toLowerCase(reqs[h].walletAddress) IN
    /\ reqs[h].pc = "initInsert"
    /\ IF user \in users
       THEN /\ reqs' = [reqs EXCEPT ![h] = [@ EXCEPT !.pc = "initSelect"]]
            /\ UNCHANGED users
       ELSE /\ users' = users \cup {user}
            /\ Respond(h, [status |-> 200, message |-> "User initialized successfully",
                           user |-> Some(user)])
    /\ UNCHANGED <<loyalty_nfts, nft_attributes, user_actions, chain, evalVars, perkVars, metaVars>>

\* initUser after an INSERT that returned no row: the user another request
\* created is read and returned.
SelectUser(h) ==
    /\ reqs[h].pc = "initSelect"
    /\ Respond(h, [status |-> 200, message |-> "User already exists",
                   user |-> getUserByAddress(reqs[h].walletAddress)])
    /\ UNCHANGED <<users, loyalty_nfts, nft_attributes, user_actions, chain, evalVars, perkVars, metaVars>>

\* A query of initUser fails and the error is thrown to the caller.
FailInit(h) ==
    /\ reqs[h].pc \in {"initInsert", "initSelect"}
    /\ Respond(h, [status |-> 500, message |-> "Internal server error"])
    /\ UNCHANGED <<users, loyalty_nfts, nft_attributes, user_actions, chain, evalVars, perkVars, metaVars>>

\* getTotalSupply: totalSupply(); an error of the call is caught and
\* answered 0.
getTotalSupply(rpcError) == IF rpcError THEN 0 ELSE Len(chain)

\* userOwnsNFT: balanceOf(userAddress) > 0; an error of the call is caught
\* and answered false.
userOwnsNFT(userAddress, rpcError) ==
    /\ ~rpcError
    /\ \E i \in DOMAIN chain : chain[i] = toLowerCase(userAddress)

\* mintNFT up to the call of mintNFTWithURI: the user must exist (404) and
\* own no token on chain (400); the token URI is built for the id predicted
\* from the supply.
MintNFT(h, userAddress, rpcError, supplyError) ==
    /\ TakesNext(h)
    /\ Len(chain) + Cardinality({g \in Handlers : reqs[g].pc \in {"mintCheck", "mintSend"}}) < MaxSupply
    /\ IF getUserByAddress(userAddress) = Absent
       THEN Respond(h, [status |-> 404, message |-> "User not found. Please initialize user first."])
       ELSE IF userOwnsNFT(userAddress, rpcError)
       THEN Respond(h, [status |-> 400, message |-> "User already owns an NFT"])
       ELSE reqs' = [reqs EXCEPT ![h] =
                [IdleHandler EXCEPT !.pc = "mintCheck", !.kind = "mint",
                                    !.walletAddress = userAddress,
                                    !.uriTokenId = getTotalSupply(supplyError) + 1]]
    /\ UNCHANGED <<users, loyalty_nfts, nft_attributes, user_actions, chain, evalVars, perkVars, metaVars>>

\* mintNFTWithURI before the transaction: it throws when the user owns a
\* token (the controller answers 500) and predicts the id from totalSupply().
MintCheck(h, rpcError) ==
    /\ reqs[h].pc = "mintCheck"
    /\ IF userOwnsNFT(reqs[h].walletAddress, rpcError)
       THEN Respond(h, [status |-> 500, message |-> "User already owns an NFT"])
       ELSE reqs' = [reqs EXCEPT ![h] = [@ EXCEPT !.pc = "mintSend",
                                                  !.expectedTokenId = Len(chain) + 1]]
    /\ UNCHANGED <<users, loyalty_nfts, nft_attributes, user_actions, chain, evalVars, perkVars, metaVars>>

\* mintNFTWithURI, the transaction: the contract issues token totalSupply + 1
\* to the user; the id is read from the Transfer event of the receipt, and
\* is the predicted id when the receipt shows no such event.
MintSend(h, transferEvent) ==
    /\ reqs[h].pc = "mintSend"
    /\ chain' = Append(chain, toLowerCase(reqs[h].walletAddress))
    /\ reqs' = [reqs EXCEPT ![h] = [@ EXCEPT !.pc = "mintRecord",
               !.tokenId = IF transferEvent THEN Len(chain) + 1 ELSE reqs[h].expectedTokenId]]
    /\ UNCHANGED <<users, loyalty_nfts, nft_attributes, user_actions, evalVars, perkVars, metaVars>>

\* createNFTRecord: one transaction upserts the loyalty_nfts row and the
\* initial attribute row; mintNFT answers 200.
CreateRecord(h) ==
    LET q == reqs[h] IN
    /\ q.pc = "mintRecord"
    /\ ~LockedByOther(h, q.tokenId)
    /\ loyalty_nfts' = {n \in loyalty_nfts : n.token_id # q.tokenId}
          \cup {[token_id |-> q.tokenId, owner_wallet_address |-> toLowerCase(q.walletAddress),
                 token_uri |-> generateMetadataUrl(q.uriTokenId)]}
    /\ nft_attributes' = {a \in nft_attributes : a.nft_token_id # q.tokenId}
          \cup {NewAttributesRow(q.tokenId)}
    /\ Respond(h, [status |-> 200, result |-> "success", tokenId |-> q.tokenId])
    /\ UNCHANGED <<users, user_actions, chain, evalVars, perkVars, metaVars>>

\* A call to the chain or the transaction of createNFTRecord fails: mintNFT
\* answers 500.
FailMint(h) ==
    /\ reqs[h].pc \in {"mintCheck", "mintSend", "mintRecord"}
    /\ Respond(h, [status |-> 500, message |-> "Internal server error"])
    /\ UNCHANGED <<users, loyalty_nfts, nft_attributes, user_actions, chain, evalVars, perkVars, metaVars>>

\* processUserAction up to the INSERT: the points are calculated, the
\* transaction begins and holds the new user_actions row.
BeginAction(h, kind, walletAddress, tokenId, actionType, details, previousLevel) ==
    LET pointsEarned == calculatePoints(actionType, details) IN
    /\ BagCardinality(user_actions) + Cardinality(InFlight) < MaxActions
    /\ reqs' = [reqs EXCEPT ![h] =
          [IdleHandler EXCEPT !.pc = "update", !.kind = kind,
                              !.walletAddress = walletAddress, !.tokenId = tokenId,
                              !.actionType = actionType, !.details = details,
                              !.previousLevel = previousLevel,
                              !.pointsEarned = pointsEarned,
                              !.txAction = Some([user_id |-> toLowerCase(walletAddress),
                                                 action_type |-> actionType,
                                                 points_earned |-> pointsEarned])]]

\* simulateAction up to the INSERT of processUserAction: the body is
\* validated (400), the user looked up (404), then the action begins.
SimulateAction(h, walletAddress, actionType, detailsOpt) ==
    /\ TakesNext(h)
    /\ IF detailsOpt = Absent
       THEN Respond(h, [status |-> 400, message |-> "Wallet address, action type, and details are required"])
       ELSE IF actionType \notin validActionTypes
       THEN Respond(h, [status |-> 400, message |-> "Invalid action type"])
       ELSE IF getUserByAddress(walletAddress) = Absent
       THEN Respond(h, [status |-> 404, message |-> "User not found. Please initialize user first."])
       ELSE BeginAction(h, "simulate", walletAddress, 0, actionType, Get(detailsOpt), 0)
    /\ UNCHANGED <<users, loyalty_nfts, nft_attributes, user_actions, chain, evalVars, perkVars, metaVars>>

\* updateNFTLoyalty up to the INSERT of processUserAction: the NFT is read
\* (404), then the action begins for its owner with actionDetails || {}.
UpdateNFTLoyalty(h, tokenId, actionType, detailsOpt) ==
    /\ TakesNext(h)
    /\ LET nftData == getNFTMetadata(tokenId) IN
       IF nftData = Absent
       THEN Respond(h, [status |-> 404, message |-> "NFT not found"])
       ELSE BeginAction(h, "updateLoyalty", Get(nftData).owner_wallet_address, tokenId, actionType,
                        IF detailsOpt = Absent THEN NoDetails ELSE Get(detailsOpt),
                        Get(nftData).loyalty_level)
    /\ UNCHANGED <<users, loyalty_nfts, nft_attributes, user_actions, chain, evalVars, perkVars, metaVars>>

\* updateNFTAttributes inside the transaction: the rows of the user are
\* updated in place (the UPDATE waits while another transaction holds one of
\* them) and their new versions stay with the transaction until it commits.
\* storedLevel keeps the level the UPDATE found in the row of the request's
\* token, as history.
UpdateAttributes(h) ==
    LET q == reqs[h]
        targets == {a \in nft_attributes : UserIdOf(a) = Some(toLowerCase(q.walletAddress))}
        own == {a \in targets : a.nft_token_id = q.tokenId} IN
    /\ q.pc = "update"
    /\ \A a \in targets : ~LockedByOther(h, a.nft_token_id)
    /\ reqs' = [reqs EXCEPT ![h] =
          [@ EXCEPT !.pc = "commit",
                    !.txRows = {updateNFTAttributes(a, q.actionType, q.pointsEarned, q.details) : a \in targets},
                    !.rowCount = Cardinality(targets),
                    !.storedLevel = IF own = {} THEN @ ELSE (CHOOSE a \in own : TRUE).loyalty_level]]
    /\ UNCHANGED <<users, loyalty_nfts, nft_attributes, user_actions, chain, evalVars, perkVars, metaVars>>

\* COMMIT: the action row and the new row versions become visible. The
\* simulate endpoint answers; the update-loyalty endpoint goes on.
CommitAction(h) ==
    LET q == reqs[h]
        written == {row.nft_token_id : row \in q.txRows} IN
    /\ q.pc = "commit"
    /\ user_actions' = user_actions (+) SetToBag({Get(q.txAction)})
    /\ nft_attributes' = {a \in nft_attributes : a.nft_token_id \notin written} \cup q.txRows
    /\ IF q.kind = "simulate"
       THEN Respond(h, [status |-> 200, result |-> "success", pointsEarned |-> q.pointsEarned])
       ELSE reqs' = [reqs EXCEPT ![h] = [@ EXCEPT !.pc = "recalc", !.txAction = Absent, !.txRows = {}]]
    /\ UNCHANGED <<users, loyalty_nfts, chain, evalVars, perkVars, metaVars>>

\* RollbackAction without the transaction: the INSERT that had succeeded
\* stays when the UPDATE fails.
RollbackAction_KeepsLog(h) ==
    /\ reqs[h].pc \in {"update", "commit"}
    /\ user_actions' = user_actions (+) SetToBag({Get(reqs[h].txAction)})
    /\ Respond(h, [status |-> 500, message |-> "Internal server error"])
    /\ UNCHANGED <<users, loyalty_nfts, nft_attributes, chain, evalVars, perkVars, metaVars>>

\* A statement of the transaction fails (storage error): ROLLBACK, the
\* error is rethrown and the controller answers 500.
RollbackAction(h) ==
    /\ reqs[h].pc \in {"update", "commit"}
    /\ Respond(h, [status |-> 500, message |-> "Internal server error"])
    /\ UNCHANGED <<users, loyalty_nfts, nft_attributes, user_actions, chain, evalVars, perkVars, metaVars>>

\* updateLoyaltyLevel, SELECT calculate_and_update_loyalty_level(tokenId).
\* First half, the SELECT of the function: the level is computed from the
\* committed row; without a row the function returns 0 and is done.
SelectForLevel(h) ==
    LET q == reqs[h]
        rows == {a \in nft_attributes : a.nft_token_id = q.tokenId} IN
    /\ q.pc = "recalc"
    /\ reqs' = [reqs EXCEPT ![h] =
          IF rows = {} THEN [@ EXCEPT !.pc = "reread", !.newLevel = 0]
          ELSE [@ EXCEPT !.pc = "setlevel", !.newLevel = SqlLoyaltyLevel(CHOOSE a \in rows : TRUE)]]
    /\ UNCHANGED <<users, loyalty_nfts, nft_attributes, user_actions, chain, evalVars, perkVars, metaVars>>

\* Second half, the UPDATE of the function: it waits while a transaction
\* holds the row, then writes the level computed before. No gating column
\* changes, so the trigger leaves the level as written.
SetLevel(h) ==
    LET q == reqs[h]
        rows == {a \in nft_attributes : a.nft_token_id = q.tokenId} IN
    /\ q.pc = "setlevel"
    /\ ~LockedByOther(h, q.tokenId)
    /\ nft_attributes' = (nft_attributes \ rows)
            \cup {TriggerUpdateLoyaltyLevel(a, [a EXCEPT !.loyalty_level = q.newLevel]) : a \in rows}
    /\ reqs' = [reqs EXCEPT ![h] = [@ EXCEPT !.pc = "reread"]]
    /\ UNCHANGED <<users, loyalty_nfts, user_actions, chain, evalVars, perkVars, metaVars>>

\* The second getNFTMetadata and the 200 answer of updateNFTLoyalty.
RespondLoyalty(h) ==
    LET q == reqs[h] IN
    /\ q.pc = "reread"
    /\ Respond(h, [status |-> 200, result |-> "success", pointsEarned |-> q.pointsEarned,
                   previousLevel |-> q.previousLevel, newLevel |-> q.newLevel,
                   levelChanged |-> (q.newLevel # q.previousLevel),
                   updatedAttributes |-> getNFTMetadata(q.tokenId)])
    /\ UNCHANGED <<users, loyalty_nfts, nft_attributes, user_actions, chain, evalVars, perkVars, metaVars>>

\* A query after the commit fails: updateNFTLoyalty answers 500.
FailAfterCommit(h) ==
    /\ reqs[h].pc \in {"recalc", "setlevel", "reread"}
    /\ Respond(h, [status |-> 500, message |-> "Internal server error"])
    /\ UNCHANGED <<users, loyalty_nfts, nft_attributes, user_actions, chain, evalVars, perkVars, metaVars>>

\* The caller has its answer; the handler is free for the next request.
Finish(h) ==
    /\ reqs[h].pc = "done"
    /\ reqs' = [reqs EXCEPT ![h] = IdleHandler]
    /\ UNCHANGED <<users, loyalty_nfts, nft_attributes, user_actions, chain, evalVars, perkVars, metaVars>>

DbInit ==
    /\ users = {}
    /\ loyalty_nfts = {}
    /\ nft_attributes = {}
    /\ user_actions = EmptyBag
    /\ chain = <<>>
    /\ reqs = [h \in Handlers |-> IdleHandler]

\* Wallet addresses of requests to initUser and mintNFT: one address in two
\* letter cases, the address of a second user and a string that is no
\* address.
InvalidAddress == "0xZZ"
WalletInputs ==
    Addresses \cup {toLowerCase(a) : a \in Addresses} \cup {OtherAddress, InvalidAddress}

MintNext ==
    \/ \E h \in Handlers, a \in WalletInputs : InitUser(h, a)
    \/ \E h \in Handlers : InsertUser(h)
    \/ \E h \in Handlers : SelectUser(h)
    \/ \E h \in Handlers : FailInit(h)
    \/ \E h \in Handlers, a \in WalletInputs, rpcError \in BOOLEAN, supplyError \in BOOLEAN :
          MintNFT(h, a, rpcError, supplyError)
    \/ \E h \in Handlers, rpcError \in BOOLEAN : MintCheck(h, rpcError)
    \/ \E h \in Handlers, transferEvent \in BOOLEAN : MintSend(h, transferEvent)
    \/ \E h \in Handlers : CreateRecord(h)
    \/ \E h \in Handlers : FailMint(h)
    \/ \E h \in Handlers : Finish(h)

Next ==
    \/ \E h \in Handlers, a \in Addresses, b \in SimulateBodies :
          SimulateAction(h, a, b.actionType, b.details)
    \/ \E h \in Handlers, id \in TokenIds, b \in LoyaltyBodies :
          UpdateNFTLoyalty(h, id, b.actionType, b.details)
    \/ \E h \in Handlers : UpdateAttributes(h)
    \/ \E h \in Handlers : CommitAction(h)
    \/ \E h \in Handlers : RollbackAction(h)
    \/ \E h \in Handlers : SelectForLevel(h)
    \/ \E h \in Handlers : SetLevel(h)
    \/ \E h \in Handlers : RespondLoyalty(h)
    \/ \E h \in Handlers : FailAfterCommit(h)
    \/ \E h \in Handlers : Finish(h)

(***************************************************************************)
(* SpecRead: the read routes on stored tables                              *)
(***************************************************************************)
\* The rows the query of the metadata route returns: loyalty_nfts LEFT JOIN
\* nft_attributes for one token id.
MetadataQuery(tokenId) ==
    LET nfts == {n \in loyalty_nfts : n.token_id = tokenId}
        rows == {a \in nft_attributes : a.nft_token_id = tokenId} IN
    IF nfts = {} THEN <<>>
    ELSE IF rows = {} THEN <<UnjoinedRow>>
    ELSE LET a == CHOOSE b \in rows : TRUE IN
         <<[loyalty_level |-> Some(a.loyalty_level), loyalty_points |-> Some(a.loyalty_points),
            flights_taken |-> Some(a.flights_taken), total_spending |-> Some(a.total_spending),
            bank_tier |-> Some(a.bank_tier), resorts_visited |-> Some(a.resorts_visited),
            miles_earned |-> Some(a.miles_earned), status_tier |-> Some(a.status_tier),
            last_updated |-> Some(Timestamp)]>>

\* getNFTCompleteInfo: the user's row as evaluatePerkUnlockCondition reads
\* it, null when the wallet owns no token.
getNFTCompleteInfo(walletAddress) ==
    LET rows == {a \in nft_attributes : UserIdOf(a) = Some(toLowerCase(walletAddress))} IN
    IF rows = {} THEN Absent
    ELSE LET a == CHOOSE b \in rows : TRUE IN
         Some([loyalty_points |-> a.loyalty_points, tier_level |-> a.tier_level,
               staked_eth |-> 0, total_transactions |-> a.total_transactions,
               vietjet_flights |-> a.vietjet_flights,
               hdbank_transactions |-> a.hdbank_transactions,
               dragon_city_visits |-> a.dragon_city_visits])

\* GET /api/metadata/:tokenId on the stored tables; the query may fail.
ReadMetadata(tokenId, dbError) ==
    LET query == IF dbError THEN [kind |-> "error", rows |-> <<>>]
                 ELSE [kind |-> "rows", rows |-> MetadataQuery(tokenId)] IN
    /\ metaPc' = "responded"
    /\ metaTokenId' = tokenId
    /\ metaQuery' = query
    /\ metadata' = IF tokenId < 0
                   THEN [status |-> 400, error |-> "Invalid token ID"]
                   ELSE MetadataResponse(tokenId, query)
    /\ UNCHANGED <<evalVars, perkVars, dbVars>>

\* GET /api/perks/user/:walletAddress for one row of the perk list.
ReadPerks(walletAddress, p) ==
    /\ perkPc' = "evaluated"
    /\ perk' = p
    /\ userInfo' = getNFTCompleteInfo(walletAddress)
    /\ is_unlocked' = evaluatePerkUnlockCondition(p, getNFTCompleteInfo(walletAddress))
    /\ UNCHANGED <<evalVars, metaVars, dbVars>>

\* A query of getUserPerks fails: the controller answers 500, no list.
ReadPerksFails ==
    /\ perkPc' = "failed"
    /\ perk' = [unlock_condition |-> Absent]
    /\ userInfo' = Absent
    /\ is_unlocked' = FALSE
    /\ UNCHANGED <<evalVars, metaVars, dbVars>>

NoCondition ==
    [min_loyalty_points |-> Absent, min_tier_level |-> Absent, min_staked_eth |-> Absent,
     min_transactions |-> Absent, min_brand_specific |-> Absent]

\* Rows of the perk list.
ListedPerks ==
    {[unlock_condition |-> Some([NoCondition EXCEPT !.min_loyalty_points = Some(100)])],
     [unlock_condition |-> Some([NoCondition EXCEPT !.min_transactions = Some(1)])],
     [unlock_condition |-> Some([NoCondition EXCEPT !.min_tier_level = Some("Silver")])]}

\* Wallets callers read with: the known address in both cases.
ReadAddresses == {MixedCaseAddress, toLowerCase(MixedCaseAddress)}

\* Bodies that bring a row to the thresholds of level 1 (1000 points, 2
\* flights, 5,000,000 spent) within MaxActions actions.
TierBodies ==
    {Body("vietjet_flight_booking", Some(PointsEarned(500))),
     Body("hdbank_transaction", Some(Amount(5000000)))}

\* Tables as the write operations leave them: empty, a user, a user with a
\* minted token, and that after one committed action.
StoredStates ==
    LET user == toLowerCase(MixedCaseAddress)
        empty == [users |-> {}, loyalty_nfts |-> {}, nft_attributes |-> {},
                  user_actions |-> EmptyBag, chain |-> <<>>]
        registered == [empty EXCEPT !.users = {user}]
        minted == [registered EXCEPT
                     !.chain = <<user>>,
                     !.loyalty_nfts = {[token_id |-> 1, owner_wallet_address |-> user,
                                        token_uri |-> generateMetadataUrl(1)]},
                     !.nft_attributes = {NewAttributesRow(1)}]
        acted == {[minted EXCEPT
                     !.nft_attributes = {updateNFTAttributes(NewAttributesRow(1), b.actionType,
                                            calculatePoints(b.actionType, Get(b.details)),
                                            Get(b.details))},
                     !.user_actions = SetToBag({[user_id |-> user, action_type |-> b.actionType,
                                                 points_earned |-> calculatePoints(b.actionType, Get(b.details))]})] :
                  b \in {c \in SimulateBodies \cup TierBodies :
                            c.actionType \in validActionTypes /\ c.details # Absent}}
    IN  {empty, registered, minted} \cup acted

StoredInit ==
    \E s \in StoredStates :
        /\ users = s.users
        /\ loyalty_nfts = s.loyalty_nfts
        /\ nft_attributes = s.nft_attributes
        /\ user_actions = s.user_actions
        /\ chain = s.chain
        /\ reqs = [h \in Handlers |-> IdleHandler]

\* Tables before any action is processed: empty, a user, and a user with a
\* minted token.
IssuedInit == StoredInit /\ user_actions = EmptyBag

\* A user with a freshly created attribute row.
CreatedInit == IssuedInit /\ nft_attributes # {}

\* A registered user without a token.
RegisteredInit == IssuedInit /\ users # {} /\ nft_attributes = {}

LifeNext ==
    \/ \E h \in Handlers, a \in Addresses, b \in TierBodies :
          SimulateAction(h, a, b.actionType, b.details)
    \/ \E h \in Handlers : UpdateAttributes(h)
    \/ \E h \in Handlers : CommitAction(h)
    \/ \E h \in Handlers : RollbackAction(h)
    \/ \E h \in Handlers, a \in Addresses, rpcError \in BOOLEAN, supplyError \in BOOLEAN :
          MintNFT(h, a, rpcError, supplyError)
    \/ \E h \in Handlers, rpcError \in BOOLEAN : MintCheck(h, rpcError)
    \/ \E h \in Handlers, transferEvent \in BOOLEAN : MintSend(h, transferEvent)
    \/ \E h \in Handlers : CreateRecord(h)
    \/ \E h \in Handlers : FailMint(h)
    \/ \E h \in Handlers : Finish(h)

TierNext ==
    \/ \E h \in Handlers, a \in Addresses, b \in TierBodies :
          SimulateAction(h, a, b.actionType, b.details)
    \/ \E h \in Handlers, id \in TokenIds, b \in TierBodies :
          UpdateNFTLoyalty(h, id, b.actionType, b.details)
    \/ \E h \in Handlers : UpdateAttributes(h)
    \/ \E h \in Handlers : CommitAction(h)
    \/ \E h \in Handlers : RollbackAction(h)
    \/ \E h \in Handlers : SelectForLevel(h)
    \/ \E h \in Handlers : SetLevel(h)
    \/ \E h \in Handlers : RespondLoyalty(h)
    \/ \E h \in Handlers : FailAfterCommit(h)
    \/ \E h \in Handlers : Finish(h)

ReadNext ==
    \/ \E id \in -1..Cardinality(Addresses) + 1, dbError \in BOOLEAN : ReadMetadata(id, dbError)
    \/ \E a \in ReadAddresses, p \in ListedPerks : ReadPerks(a, p)
    \/ ReadPerksFails

(***************************************************************************)
(* Specifications                                                          *)
(***************************************************************************)
\* The evaluator applied to the vectors of AttributeVectors.
EvalInit == EvalInput /\ PerkIdle /\ MetaIdle /\ DbInit
SpecEval == EvalInit /\ [][EvalNext]_vars

\* The perk evaluation applied to the rows of PerkRows and UserInfos.
PerkInit == EvalIdle /\ PerkInput /\ MetaIdle /\ DbInit
SpecPerk == PerkInit /\ [][PerkNext]_vars

\* The metadata route applied to the token ids and query results.
MetaInit == EvalIdle /\ PerkIdle /\ MetaInput /\ DbInit
SpecMeta == MetaInit /\ [][MetaNext]_vars

\* The read routes on the tables the write operations leave.
ReadInit == EvalIdle /\ PerkIdle /\ MetaIdle /\ StoredInit
SpecRead == ReadInit /\ [][ReadNext]_vars

\* The action handlers on the tables registration and issuance leave.
Init == EvalIdle /\ PerkIdle /\ MetaIdle /\ IssuedInit
Spec == Init /\ [][Next]_vars

\* Actions and token issuance for a registered user who owns no token yet.
LifeInit == EvalIdle /\ PerkIdle /\ MetaIdle /\ RegisteredInit
SpecLife == LifeInit /\ [][LifeNext]_vars

\* The action handlers on a freshly created row, with the bodies of TierBodies.
TierInit == EvalIdle /\ PerkIdle /\ MetaIdle /\ CreatedInit
SpecTier == TierInit /\ [][TierNext]_vars

\* Registration and token issuance by concurrent handlers, from empty tables.
MintInit == EvalIdle /\ PerkIdle /\ MetaIdle /\ DbInit
SpecMint == MintInit /\ [][MintNext]_vars

(***************************************************************************)
(* Properties of the level evaluator (SpecEval)                            *)
(***************************************************************************)
\* Ordinal of a categorical tier in Standard < Silver < Gold < Platinum < Diamond.
TierOrdinal(t) ==
    CASE t = "Standard" -> 0 [] t = "Silver" -> 1 [] t = "Gold" -> 2
      [] t = "Platinum" -> 3 [] t = "Diamond" -> 4

\* The levels whose definition the vector satisfies in all four dimensions,
\* an absent minimum tier being no constraint.
SatisfiedLevels(v) ==
    {c.level : c \in {d \in Range(LEVEL_CONFIGS) :
        /\ v.loyaltyPoints >= d.minRequirements.loyaltyPoints
        /\ v.flightsTaken >= d.minRequirements.flightsTaken
        /\ v.totalSpending >= d.minRequirements.totalSpending
        /\ \/ d.minRequirements.bankTier = Absent
           \/ TierOrdinal(v.bankTier) >= TierOrdinal(Get(d.minRequirements.bankTier))}}

HighestSatisfied(v) ==
    LET above == SatisfiedLevels(v) \ {0} IN
    IF above = {} THEN 0 ELSE CHOOSE l \in above : \A m \in above : m <= l

ZeroVector == [loyaltyPoints |-> 0, flightsTaken |-> 0, totalSpending |-> 0, bankTier |-> "Standard"]
OneFlightShort == [loyaltyPoints |-> 1000, flightsTaken |-> 1, totalSpending |-> 5000000, bankTier |-> "Standard"]

\* C1: for every attribute vector with non-negative fields and a tier of the
\* fixed order, the evaluator returns the level of the highest definition
\* whose four requirements are all satisfied, and 0 when no definition above
\* the floor matches: 0 for the all-zero Standard vector, 0 for the vector at
\* the level-1 thresholds with one flight missing.
C1_HighestSatisfiedLevel ==
    evalPc \in {"evaluated", "lowered"} =>
        /\ level = HighestSatisfied(attributes)
        /\ attributes = ZeroVector => level = 0
        /\ attributes = OneFlightShort => level = 0

\* The vector one flight short of level 1 has been evaluated, to level 0.
C1_Witness ==
    /\ evalPc = "evaluated"
    /\ attributes = OneFlightShort
    /\ level = 0

\* C2: monotonic gating: replacing one field of a vector by a smaller value
\* (a lower tier for the categorical tier) never raises the evaluated level.
C2_MonotonicGating ==
    evalPc = "lowered" => level <= prevLevel

\* A field has been lowered and the level fell from 7 to below 7.
C2_Witness ==
    /\ evalPc = "lowered"
    /\ prevLevel = MAX_LEVEL
    /\ level < prevLevel

(***************************************************************************)
(* Properties of perk evaluation (SpecPerk)                                *)
(***************************************************************************)
\* The condition minPoints(t): only min_loyalty_points is stored.
MinPointsOnly(c) ==
    /\ c.min_loyalty_points # Absent
    /\ c.min_tier_level = Absent
    /\ c.min_staked_eth = Absent
    /\ c.min_transactions = Absent
    /\ c.min_brand_specific = Absent

\* C7: a perk whose condition is minPoints(t) is unlocked for a vector
\* exactly when the vector's points are at least t.
C7_MinPointsThreshold ==
    (/\ perkPc = "evaluated"
     /\ userInfo # Absent
     /\ perk.unlock_condition # Absent
     /\ MinPointsOnly(Get(perk.unlock_condition)))
    => (is_unlocked <=>
          Get(userInfo).loyalty_points >= Get(Get(perk.unlock_condition).min_loyalty_points))

\* minPoints(t) evaluated one point below t: locked.
C7_Witness ==
    /\ perkPc = "evaluated"
    /\ userInfo # Absent
    /\ perk.unlock_condition # Absent
    /\ MinPointsOnly(Get(perk.unlock_condition))
    /\ Get(Get(perk.unlock_condition).min_loyalty_points) = MaxThreshold
    /\ Get(userInfo).loyalty_points = MaxThreshold - 1
    /\ ~is_unlocked

\* Ordinal of a status tier in Bronze < Silver < Gold < Platinum < Diamond.
StatusTierOrdinal(t) ==
    CASE t = "Bronze" -> 0 [] t = "Silver" -> 1 [] t = "Gold" -> 2
      [] t = "Platinum" -> 3 [] t = "Diamond" -> 4

\* A condition whose tier name and brand keys are all recognized.
WellFormed(c) ==
    /\ c.min_tier_level # Absent => Get(c.min_tier_level) \in Range(tierLevels)
    /\ c.min_brand_specific # Absent =>
          \A e \in Get(c.min_brand_specific) : e.key \in BrandCheckKeys

\* The sub-conditions a condition stores, each as its truth on the vector.
SubConditions(c, info) ==
    {<<"min_loyalty_points", info.loyalty_points >= Get(c.min_loyalty_points)>> :
         x \in IF c.min_loyalty_points # Absent THEN {1} ELSE {}}
    \cup {<<"min_tier_level",
            StatusTierOrdinal(info.tier_level) >= StatusTierOrdinal(Get(c.min_tier_level))>> :
         x \in IF c.min_tier_level # Absent THEN {1} ELSE {}}
    \cup {<<"min_staked_eth", info.staked_eth >= Get(c.min_staked_eth)>> :
         x \in IF c.min_staked_eth # Absent THEN {1} ELSE {}}
    \cup {<<"min_transactions", info.total_transactions >= Get(c.min_transactions)>> :
         x \in IF c.min_transactions # Absent THEN {1} ELSE {}}
    \cup {<<e.key, info[e.key] >= e.required>> :
         e \in IF c.min_brand_specific # Absent THEN Get(c.min_brand_specific) ELSE {}}

Malformed(p) ==
    \/ p.unlock_condition = Absent
    \/ LET c == Get(p.unlock_condition) IN
        \/ /\ c.min_loyalty_points = Absent
           /\ c.min_tier_level = Absent
           /\ c.min_staked_eth = Absent
           /\ c.min_transactions = Absent
           /\ c.min_brand_specific = Absent
        \/ c.min_tier_level = Some(UnknownTier)
        \/ /\ c.min_brand_specific # Absent
           /\ \E e \in Get(c.min_brand_specific) : e.key \notin BrandCheckKeys

\* C9: a perk row whose unlock condition is missing or malformed evaluates
\* to unlocked = false for every vector.
C9_DefaultLocked ==
    (perkPc = "evaluated" /\ Malformed(perk)) => ~is_unlocked

(***************************************************************************)
(* Properties of the metadata route (SpecMeta)                             *)
(***************************************************************************)
\* Positions of the rarity traits in a descriptor's attribute list.
RarityPositions(m) == {i \in DOMAIN m.attributes : m.attributes[i].trait_type = "Rarity"}

\* C10: the generated descriptor carries exactly one rarity trait, "Elite"
\* for a level of 5 or more, "Rare" for level 3 or 4 and "Common" for level
\* 0, 1 or 2, at every level 0..7.
C10_RarityTrait ==
    (metaPc = "responded" /\ metadata.status = 200) =>
        /\ metadata.loyalty_ecosystem.level \in 0..7
        /\ Cardinality(RarityPositions(metadata)) = 1
        /\ \A i \in RarityPositions(metadata) :
              /\ metadata.loyalty_ecosystem.level \in {0, 1, 2} <=> metadata.attributes[i].value = "Common"
              /\ metadata.loyalty_ecosystem.level \in {3, 4} <=> metadata.attributes[i].value = "Rare"
              /\ metadata.loyalty_ecosystem.level \in {5, 6, 7} <=> metadata.attributes[i].value = "Elite"

\* A descriptor computed from a stored row at level 5, the lowest Elite level.
C10_Witness ==
    /\ metaPc = "responded"
    /\ metadata.status = 200
    /\ metaQuery.kind = "rows"
    /\ metaQuery.rows # <<>>
    /\ metadata.loyalty_ecosystem.level = 5
    /\ \E i \in RarityPositions(metadata) : metadata.attributes[i].value = "Elite"

(***************************************************************************)
(* Properties of action processing (Spec)                                  *)
(***************************************************************************)
\* The attribute vector the level evaluator reads from a stored row.
VectorOf(a) ==
    [loyaltyPoints |-> a.loyalty_points, flightsTaken |-> a.flights_taken,
     totalSpending |-> a.total_spending, bankTier |-> a.bank_tier]

\* C3: after every committed action, the stored loyalty_level of the user's
\* row equals the level evaluator applied to the points, activity count,
\* spend and tier stored in that same row.
C3_LevelFollowsRow ==
    \A a \in nft_attributes :
        a.total_transactions > 0 => a.loyalty_level = calculateLoyaltyLevel(VectorOf(a))

\* The step in which the transaction of handler h commits.
Commits(h) ==
    /\ reqs[h].pc = "commit"
    /\ reqs'[h].pc # "commit"
    /\ user_actions' # user_actions

\* The committed versions of the rows that the transaction of handler h has
\* updated.
UpdatedRows(h) ==
    {a \in nft_attributes : \E row \in reqs[h].txRows : row.nft_token_id = a.nft_token_id}

C5_UnknownTypeRejected ==
    /\ \A r \in BagToSet(user_actions) : r.action_type \in validActionTypes
    /\ \A h \in Handlers :
          (reqs[h].pc = "done" /\ reqs[h].actionType = UnknownActionType)
              => reqs[h].response.status # 200

\* The delta of the fixed table: the stated pointsEarned, or the amount
\* divided by the denominator of the action type.
TableDelta(actionType, details) ==
    CASE actionType \in {"vietjet_flight_booking", "dragon_city_visit", "ha_long_star_booking"} ->
            Get(details.pointsEarned)
      [] actionType = "hdbank_transaction" -> Get(details.amount) \div 1000
      [] actionType = "hd_saison_purchase" -> Get(details.amount) \div 10000

\* The payloads the table speaks of: a stated non-negative pointsEarned, or
\* a stated non-negative amount.
InTable(actionType, details) ==
    \/ /\ actionType \in {"vietjet_flight_booking", "dragon_city_visit", "ha_long_star_booking"}
       /\ details.pointsEarned # Absent
       /\ Get(details.pointsEarned) >= 0
    \/ /\ actionType \in {"hdbank_transaction", "hd_saison_purchase"}
       /\ details.amount # Absent
       /\ Get(details.amount) >= 0

\* C6: the committed points of the user's row rise by exactly the delta of
\* the fixed table: the stated pointsEarned (any value >= 0) for flight
\* bookings, resort visits and cruise bookings, floor(amount / 1000) for bank
\* transactions and floor(amount / 10000) for instalment purchases.
C6_PointDelta ==
    [][\A h \in Handlers :
          (Commits(h) /\ InTable(reqs[h].actionType, reqs[h].details)) =>
              \A a \in UpdatedRows(h) :
                  \E b \in nft_attributes' :
                      /\ b.nft_token_id = a.nft_token_id
                      /\ b.loyalty_points =
                            a.loyalty_points + TableDelta(reqs[h].actionType, reqs[h].details)]_vars

(***************************************************************************)
(* Further properties of the metadata route (SpecMeta)                     *)
(***************************************************************************)
\* The value of the trait of the given type in a descriptor.
TraitValue(m, type) ==
    LET i == CHOOSE j \in DOMAIN m.attributes : m.attributes[j].trait_type = type
    IN  m.attributes[i].value

\* The integers that rounding the quotient 100 * a / b to the nearest can
\* give: a half rounded up, or to the even neighbour.
RoundedQuotient(a, b) ==
    LET down == (100 * a) \div b IN
    IF 200 * a - 2 * b * down < b THEN {down}
    ELSE IF 200 * a - 2 * b * down > b THEN {down + 1}
    ELSE {down + 1, IF down % 2 = 0 THEN down ELSE down + 1}

\* C11: progressToNext is an integer in 0..100; it is 100 at MAX_LEVEL, 100
\* when the next level requires no points, and otherwise
\* min(100, round(100 * points / nextLevel.points)), from the points alone.
C11_ProgressToNext ==
    (metaPc = "responded" /\ metadata.status = 200) =>
        LET l == metadata.loyalty_ecosystem.level
            points == TraitValue(metadata, "Loyalty Points")
            progress == metadata.loyalty_ecosystem.progress_to_next_level
        IN  /\ progress \in 0..100
            /\ l >= MAX_LEVEL => progress = 100
            /\ l < MAX_LEVEL =>
                  LET required == LEVEL_CONFIGS[l + 2].minRequirements.loyaltyPoints IN
                  IF required = 0 THEN progress = 100
                  ELSE \E q \in RoundedQuotient(points, required) : progress = Min(100, q)

(***************************************************************************)
(* Properties of the read routes (SpecRead)                                *)
(***************************************************************************)
\* C12: the read operations are pure and repeatable: a metadata or perk
\* read changes no stored row, and a read that repeats the previous one, on
\* the same stored rows, returns the same descriptor and the same
\* eligibility.
C12_ReadsArePure ==
    [][/\ UNCHANGED dbVars
       /\ (metaPc = "responded" /\ metaPc' = "responded" /\ metaTokenId' = metaTokenId)
             => metadata' = metadata
       /\ (perkPc = "evaluated" /\ perkPc' = "evaluated" /\ perk' = perk)
             => is_unlocked' = is_unlocked]_vars

(***************************************************************************)
(* Further properties of action processing (Spec)                          *)
(***************************************************************************)
\* The step in which the transaction of handler h fails.
Fails(h) ==
    /\ reqs[h].pc \in {"update", "commit"}
    /\ reqs'[h].pc = "done"
    /\ reqs'[h].response.status # 200

\* C13: all-or-nothing: when a step of the transaction fails (the log
\* insert, the attribute update or the tier update) the caller gets a
\* failure and neither the log nor any attribute row changes; when it
\* commits, the log row and the points, counter and tier of the row become
\* visible together; no row shows an action that the log does not hold.
C13_AllOrNothing ==
    [][/\ \A a \in nft_attributes : a.total_transactions <= BagCardinality(user_actions)
       /\ \A h \in Handlers :
            /\ Fails(h) =>
                  /\ reqs'[h].response.status = 500
                  /\ UNCHANGED <<users, loyalty_nfts, nft_attributes, user_actions>>
            /\ Commits(h) =>
                  \A a \in UpdatedRows(h) :
                      \E b \in nft_attributes' :
                          /\ b.nft_token_id = a.nft_token_id
                          /\ b.total_transactions = a.total_transactions + 1
                          /\ b.loyalty_points = a.loyalty_points + reqs[h].pointsEarned
                          /\ b.tier_level = UserTier(b.loyalty_points)]_vars

\* An action worth points had updated the user's row inside its transaction
\* and failed: the caller has a 500, the log is empty and the row untouched.
C13_Witness ==
    \E h \in Handlers :
        /\ reqs[h].pc = "done"
        /\ reqs[h].kind = "simulate"
        /\ reqs[h].response.status = 500
        /\ reqs[h].rowCount = 1
        /\ reqs[h].pointsEarned > 0
        /\ user_actions = EmptyBag
        /\ \A a \in nft_attributes : a.total_transactions = 0 /\ a.loyalty_points = 0
        /\ nft_attributes # {}

\* A payload with a negative numeric field.
NegativePayload(details) ==
    \/ details.pointsEarned # Absent /\ Get(details.pointsEarned) < 0
    \/ details.amount # Absent /\ Get(details.amount) < 0

\* C14: an action whose payload has a negative pointsEarned or amount is
\* rejected before any mutation: it never holds an action-log row, never
\* updates a row and is never answered with success.
C14_NegativePayloadRejected ==
    \A h \in Handlers :
        NegativePayload(reqs[h].details) =>
            /\ reqs[h].txAction = Absent
            /\ reqs[h].txRows = {}
            /\ reqs[h].response.status # 200

\* C16: an action for a registered user who has no attribute row is
\* answered NotFound and records nothing: while no attribute row exists the
\* action log stays empty, and no action is answered with success without
\* having updated a row.
C16_NoVectorNotFound ==
    /\ nft_attributes = {} => user_actions = EmptyBag
    /\ \A h \in Handlers :
          (reqs[h].pc = "done" /\ reqs[h].kind = "simulate" /\ reqs[h].response.status = 200)
              => reqs[h].rowCount >= 1

(***************************************************************************)
(* Further properties of the read routes (SpecRead, SpecMeta)              *)
(***************************************************************************)
\* C15: a read for a token or user that has no stored attribute row is
\* answered NotFound: the metadata route answers 404 and the perk route
\* returns no eligibility list, never one computed without a stored row.
C15_ReadNotFound ==
    /\ (/\ metaPc = "responded"
        /\ metaTokenId >= 0
        /\ \A a \in nft_attributes : a.nft_token_id # metaTokenId)
          => metadata.status = 404
    /\ perkPc = "evaluated" => userInfo # Absent

\* C17: a storage failure is surfaced to the caller: when the query of the
\* metadata route fails, the route does not answer with success.
C17_StorageFailureSurfaced ==
    (metaPc = "responded" /\ metaTokenId >= 0 /\ metaQuery.kind = "error")
        => metadata.status # 200

\* Tokens the contract issued to a user, and the token rows stored for the user.
TokensOf(user) == {i \in DOMAIN chain : chain[i] = user}
RecordsOf(user) == {n \in loyalty_nfts : n.owner_wallet_address = user}

\* C18: under every interleaving of mint requests for one user at most one
\* mint succeeds: the contract issues the user at most one token and at most
\* one token row is stored for the user.
C18_AtMostOneMint ==
    \A user \in users :
        /\ Cardinality(TokensOf(user)) <= 1
        /\ Cardinality(RecordsOf(user)) <= 1

\* User rows whose address is the wallet's in some letter case.
UserRecords(walletAddress) == {u \in users : toLowerCase(u) = toLowerCase(walletAddress)}

C20_CreatedVector ==
    \A a \in nft_attributes :
        /\ a.loyalty_points = 0
        /\ a.total_transactions = 0
        /\ a.total_spent = 0
        /\ a.bank_tier = "Standard"
        /\ a.loyalty_level = calculateLoyaltyLevel(ZeroVector)
        /\ a.loyalty_level = 0

\* The spend amount a payload carries, 0 when it carries none.
SpendAmount(details) == IF details.amount = Absent THEN 0 ELSE Get(details.amount)

\* C21: each commit of an action whose payload carries a positive spend
\* amount (hdbank_transaction and hd_saison_purchase alike) raises
\* total_spending, the spend the level evaluator reads, by that amount, and
\* a commit of an action whose payload carries none leaves it as it was.
C21_SpendAccumulates ==
    [][\A h \in Handlers :
          (Commits(h) /\ SpendAmount(reqs[h].details) >= 0) =>
              \A a \in UpdatedRows(h) :
                  \E b \in nft_attributes' :
                      /\ b.nft_token_id = a.nft_token_id
                      /\ b.total_spending = a.total_spending + SpendAmount(reqs[h].details)]_vars

\* C22: each commit of a vietjet_flight_booking raises flights_taken, the
\* activity count the level evaluator reads, by exactly 1, and a commit of
\* any other action type leaves it as it was.
C22_FlightsCounted ==
    [][\A h \in Handlers :
          Commits(h) =>
              \A a \in UpdatedRows(h) :
                  \E b \in nft_attributes' :
                      /\ b.nft_token_id = a.nft_token_id
                      /\ b.flights_taken = a.flights_taken +
                            (IF reqs[h].actionType = "vietjet_flight_booking" THEN 1 ELSE 0)]_vars

\* C23: once the committed actions have brought a row created with tier
\* Standard to 1000 points, 2 flight bookings and 5,000,000 spent, and every
\* request has been answered, the stored loyalty_level of the row is 1.
C23_TierUpByActions ==
    (\A h \in Handlers : reqs[h].pc = "idle") =>
        \A a \in nft_attributes :
            (/\ a.loyalty_points >= 1000
             /\ a.vietjet_flights >= 2
             /\ a.total_spent >= 5000000) => a.loyalty_level = 1

\* C24: an answered update-loyalty request reports levelChanged = TRUE
\* exactly when the level it wrote after its update differs from the level
\* its update found stored in the row, whatever other requests for the same
\* user have committed since the request first read the row.
C24_LevelChangedExact ==
    \A h \in Handlers :
        LET q == reqs[h] IN
        (q.pc = "done" /\ q.kind = "updateLoyalty" /\ q.response.status = 200 /\ q.rowCount >= 1) =>
            (q.response.levelChanged <=> q.response.newLevel # q.storedLevel)

\* A condition that holds a minimum tier and nothing else.
MinTierOnly(c) == [c EXCEPT !.min_tier_level = Absent] = NoCondition /\ c.min_tier_level # Absent

\* C25: a perk whose only condition is the minimum tier t is listed as
\* unlocked exactly when the ordinal of the user's bank_tier in Standard <
\* Silver < Gold < Platinum < Diamond is at least the ordinal of t; a user of
\* tier Standard unlocks no perk that requires Silver or more.
C25_MinCategoricalTier ==
    (/\ perkPc = "evaluated"
     /\ userInfo # Absent
     /\ perk.unlock_condition # Absent
     /\ MinTierOnly(Get(perk.unlock_condition)))
    => \A a \in nft_attributes :
          is_unlocked <=>
              TierOrdinal(a.bank_tier) >= TierOrdinal(Get(Get(perk.unlock_condition).min_tier_level))

\* C26: when the query of the metadata route returns the stored row of the
\* token, the level, description and image of the descriptor are those of
\* the level definition whose level is the stored loyalty_level of the row.
C26_DescriptorOfStoredLevel ==
    (metaPc = "responded" /\ metaTokenId >= 0 /\ metaQuery.kind = "rows") =>
        \A a \in nft_attributes :
            a.nft_token_id = metaTokenId =>
                /\ metadata.loyalty_ecosystem.level = a.loyalty_level
                /\ metadata.description = Get(getLevelConfig(a.loyalty_level)).description
                /\ metadata.image = generateImageUrl(LEVEL_IMAGE_MAP[a.loyalty_level])

\* The columns calculate_and_update_loyalty_level selects, holding a vector.
RowOfVector(v) ==
    [loyalty_points |-> v.loyaltyPoints, flights_taken |-> v.flightsTaken,
     total_spending |-> v.totalSpending, bank_tier |-> v.bankTier]

\* C27: for every vector with points, flights and spending >= 0 and a bank
\* tier of Standard, Silver, Gold, Platinum, Diamond, the level that
\* calculateLoyaltyLevel returns is the level that
\* calculate_and_update_loyalty_level computes from the same four values.
C27_EvaluatorsAgree ==
    evalPc = "evaluated" => level = SqlLoyaltyLevel(RowOfVector(attributes))

\* A Gold vector at the thresholds of level 4, which requires Platinum: both
\* evaluators give level 3.
C27_Witness ==
    /\ evalPc = "evaluated"
    /\ attributes = [loyaltyPoints |-> 10000, flightsTaken |-> 20, totalSpending |-> 75000000,
                     bankTier |-> "Gold"]
    /\ level = 3

\* C28: no commit of an action lowers the points, the flight counts or the
\* spend columns of a row, whatever the payload, and each stays >= 0.
C28_NeverLowered ==
    [][\A h \in Handlers :
          Commits(h) =>
              \A a \in UpdatedRows(h) :
                  \E b \in nft_attributes' :
                      /\ b.nft_token_id = a.nft_token_id
                      /\ b.loyalty_points >= a.loyalty_points /\ b.loyalty_points >= 0
                      /\ b.flights_taken >= a.flights_taken /\ b.flights_taken >= 0
                      /\ b.vietjet_flights >= a.vietjet_flights /\ b.vietjet_flights >= 0
                      /\ b.total_spending >= a.total_spending /\ b.total_spending >= 0
                      /\ b.total_spent >= a.total_spent /\ b.total_spent >= 0]_vars

\* The sum of points_earned over the rows of the action log that belong to
\* one user.
RECURSIVE SumPointsEarned(_, _)
SumPointsEarned(rows, user) ==
    IF rows = {} THEN 0
    ELSE LET r == CHOOSE x \in rows : TRUE IN
         (IF r.user_id = user THEN r.points_earned * CopiesIn(r, user_actions) ELSE 0)
             + SumPointsEarned(rows \ {r}, user)

\* C29: for a user whose attribute row was created with 0 points, after any
\* sequence of actions of the user, committed or rolled back, the stored
\* loyalty_points of the row equal the sum of points_earned over the rows
\* the action log holds for that user.
C29_LogMatchesPoints ==
    \A a \in nft_attributes :
        UserIdOf(a) # Absent =>
            a.loyalty_points = SumPointsEarned(BagToSet(user_actions), Get(UserIdOf(a)))

\* C30: under every interleaving of mint requests by different users, the
\* token URI stored for a minted token (the one given to the contract) is
\* the metadata URL of the token's own id. Users to whom the contract issued
\* more than one token are left aside.
C30_UriOfOwnToken ==
    \A n \in loyalty_nfts :
        Cardinality(TokensOf(n.owner_wallet_address)) = 1 =>
            n.token_uri = generateMetadataUrl(n.token_id)

====
